---- MODULE Spec2Model ----
(***************************************************************************)
(* VoxCoder: the audio bridge (transcriber.py), the execution sandbox      *)
(* (executor.py) and the per-connection WebSocket session (server.py).     *)
(*                                                                         *)
(* Three specifications share this module:                                 *)
(*   SpecStream  one AudioStream with its producer and its consumer        *)
(*   SpecExec    one call of execute_python, step by step                  *)
(*   Spec        one WebSocket session: the handler coroutine, its         *)
(*               background transcription tasks and the client             *)
(* Each specification holds the variables of the other two at their        *)
(* initial values.                                                         *)
(***************************************************************************)
EXTENDS Naturals, Integers, Sequences, FiniteSets, TLC

VARIABLES
    \* ---- AudioStream (transcriber.py) ----
    queue,        \* AudioStream._queue: the asyncio.Queue, chunks and None
    beforeEnd,    \* history: chunks pushed before the first end()
    ends,         \* history: number of end() calls
    pushes,       \* history: number of push() calls
    got,          \* history: what the consumer's __anext__ calls produced, in order
    \* ---- execute_python (executor.py) ----
    e_pc,         \* where the call of execute_python stands
    e_run,        \* (stdout, stderr, ok, missing) of the latest _run_script
    e_installed,  \* result.installed
    e_result,     \* the ExecResult returned, NoResult before the return
    e_tmp,        \* temporary script files that exist
    e_procs,      \* child processes that are running
    e_runs,       \* history: number of _run_script calls
    e_installs,   \* history: number of _pip_install calls
    e_child,      \* history: what the child of each script run did, in order
    e_pip,        \* history: outcome of the install, "none" before any
    \* ---- websocket_endpoint (server.py): the handler's locals ----
    h_pc,              \* where the handler coroutine stands
    audio_stream,      \* 0 for None, else the number of the stream in `streams`
    transcribe_task,   \* 0 for None, else the number of the task in `tasks`
    transcript_parts,  \* the list of deltas
    recording_start,   \* time.monotonic() of the last start, 0 for 0.0
    totals,            \* the cumulative cost dict
    conversation_id,   \* session.conversation_id, 0 for None
    h_turn,            \* locals of the `end` branch: audio_mins, stt_cost, agent_resp, block
    \* ---- the handler's surroundings ----
    now,               \* the monotonic clock, in ms
    streams,           \* the AudioStream objects created: their queues
    tasks,             \* the transcription tasks created
    frames,            \* frames the handler sent since it received the latest frame
    \* ---- history ----
    g_cmds,            \* text frames received
    g_bins,            \* binary frames received
    g_deltas,          \* deltas the service produced (n), and how many of the
                       \* parts now in transcript_parts came from a task
                       \* that was not the handler's transcribe_task (foreign)
    g_chats,           \* assistant calls issued
    g_inflight,        \* execute_python calls in flight
    g_started,         \* blocks of the current turn whose execution started, in order
    g_turn,            \* the latest frame received: which, and for an `end`
                       \* what it found and how it went
    g_cost,            \* cost frames sent: their number and the sum of their
                       \* request totals
    g_exit,            \* how the handler ended: "open", "disconnect", "fault"
    \* ---- agent.py: the module and the AgentSessions that call chat() ----
    a_client,          \* agent._client: 0 for None, else the number of the instance
    a_built,           \* history: Mistral clients agent._get_client constructed
    a_sess,            \* per session: conversation_id (0 for None), where its call
                       \* of chat() stands, the conversation_id of the request
    a_convs,           \* the service: conversations started so far, numbered from 1
    a_calls,           \* history: calls of chat()
    a_log,             \* history: per session, the calls of chat() that ended
    \* ---- transcriber.py: the module's client ----
    t_client,          \* transcriber._client: 0 for None, else the number of the instance
    t_built,           \* history: Mistral clients transcriber._get_client constructed
    t_calls,           \* history: calls of transcribe_stream()
    a_got              \* history: the client each call of a _get_client returned:
                       \* the module, the calling session, the instance

streamVars == <<queue, beforeEnd, ends, pushes, got>>
execVars == <<e_pc, e_run, e_installed, e_result, e_tmp, e_procs, e_runs,
              e_installs, e_child, e_pip>>

handlerVars == <<h_pc, audio_stream, transcribe_task, transcript_parts,
                 recording_start, totals, conversation_id, h_turn>>
envVars == <<now, streams, tasks, frames>>
histVars == <<g_cmds, g_bins, g_deltas, g_chats, g_inflight, g_started, g_turn,
              g_cost, g_exit>>
sessVars == <<handlerVars, envVars, histVars>>

agentVars == <<a_client, a_built, a_sess, a_convs, a_calls, a_log, t_client,
               t_built, t_calls, a_got>>

vars == <<streamVars, execVars, sessVars, agentVars>>

(***************************************************************************)
(* Bounds of the model                                                     *)
(***************************************************************************)
MaxPush == 3        \* push() calls on one AudioStream
MaxEnds == 2        \* end() calls on one AudioStream
MaxErrLines == 2    \* lines a child writes to its standard error
MaxCmds == 3        \* text frames one connection receives
MaxStarts == 2      \* `start` commands among them
MaxBins == 1        \* binary frames one connection receives
MaxDeltas == 1      \* deltas the transcription service produces for one connection
MaxTicks == 1       \* clock ticks during one connection
MaxBlocks == 2      \* code blocks in one assistant response
MaxChats == 4       \* calls of chat() by the sessions of one process
MaxTranscribes == 2 \* calls of transcribe_stream() by the sessions of one process
NSessions == 2      \* AgentSessions of one process
TickMs == 1404      \* length of a clock tick, in ms

None == "None"
StopAsyncIteration == "StopAsyncIteration"
Chunks == {"pcm1", "pcm2"}      \* payloads of binary frames

(***************************************************************************)
(* transcriber.py: class AudioStream                                       *)
(***************************************************************************)
\* push(): await self._queue.put(chunk); the queue is unbounded, put never waits
push(q, chunk) == Append(q, chunk)

\* end(): await self._queue.put(None)
end(q) == Append(q, None)

\* the mutant of __anext__: the newest item instead of the oldest
anext_newest(q) == <<IF q[Len(q)] = None THEN StopAsyncIteration ELSE q[Len(q)],
                     SubSeq(q, 1, Len(q) - 1)>>

\* __anext__(): chunk = await self._queue.get(); None raises StopAsyncIteration.
\* The value is <<what the caller gets, the queue afterwards>>; get() waits on
\* an empty queue, so the operator is applied to non-empty queues only.
__anext__(q) == <<IF Head(q) = None THEN StopAsyncIteration ELSE Head(q), Tail(q)>>

\* the producer calls push(chunk)
StreamPush ==
    /\ pushes < MaxPush
    /\ \E c \in Chunks :
         /\ queue' = push(queue, c)
         /\ beforeEnd' = IF ends = 0 THEN Append(beforeEnd, c) ELSE beforeEnd
    /\ pushes' = pushes + 1
    /\ UNCHANGED <<ends, got>>
    /\ UNCHANGED <<execVars, sessVars, agentVars>>

\* the producer calls end()
StreamEnd ==
    /\ ends < MaxEnds
    /\ queue' = end(queue)
    /\ ends' = ends + 1
    /\ UNCHANGED <<beforeEnd, pushes, got>>
    /\ UNCHANGED <<execVars, sessVars, agentVars>>

\* the consumer calls __anext__ (async for, or a further explicit attempt)
StreamAnext ==
    /\ queue # <<>>
    /\ got' = Append(got, __anext__(queue)[1])
    /\ queue' = __anext__(queue)[2]
    /\ UNCHANGED <<beforeEnd, ends, pushes>>
    /\ UNCHANGED <<execVars, sessVars, agentVars>>

StreamNext == StreamPush \/ StreamEnd \/ StreamAnext

(***************************************************************************)
(* executor.py: text of the child's output                                 *)
(*                                                                         *)
(* A text is a sequence of tokens: single characters, and three tokens     *)
(* that stand for the fixed strings the code looks for or writes.          *)
(***************************************************************************)
NL == "\n"
IMAGE == "__IMAGE__:"                  \* the image marker
MNF == "ModuleNotFoundError: No module named '"
QUOTE == "'"
DOT == "."
TIMEOUT_MSG == "Execution timed out after 30s"
Whitespace == {" ", NL}

\* str.strip()
RECURSIVE lstrip(_)
lstrip(t) == IF t # <<>> /\ Head(t) \in Whitespace THEN lstrip(Tail(t)) ELSE t

RECURSIVE rstrip(_)
rstrip(t) == IF t # <<>> /\ t[Len(t)] \in Whitespace
             THEN rstrip(SubSeq(t, 1, Len(t) - 1)) ELSE t

strip(t) == rstrip(lstrip(t))

\* index of the first occurrence of token c in t, Len(t)+1 when there is none
RECURSIVE find(_, _)
find(t, c) == IF t = <<>> \/ Head(t) = c THEN 1 ELSE 1 + find(Tail(t), c)

\* str.splitlines(): the lines without their line ends; no line for a final line end
RECURSIVE splitlines(_)
splitlines(t) ==
    IF t = <<>> THEN <<>>
    ELSE LET n == find(t, NL)
         IN  <<SubSeq(t, 1, n - 1)>> \o splitlines(SubSeq(t, n + 1, Len(t)))

\* "\n".join(lines)
RECURSIVE join(_)
join(lines) ==
    IF lines = <<>> THEN <<>>
    ELSE IF Len(lines) = 1 THEN lines[1]
    ELSE lines[1] \o <<NL>> \o join(Tail(lines))

\* An optional value: <<>> is None, <<v>> is the value v
NoneVal == <<>>
Some(v) == <<v>>

\* re.search(r"ModuleNotFoundError: No module named '([^']+)'", stderr):
\* group(1) of the leftmost match, None when nothing matches
RECURSIVE search(_)
search(t) ==
    IF t = <<>> THEN NoneVal
    ELSE IF Head(t) = MNF
         THEN LET rest == Tail(t)
                  \* the marker itself ends with a quote, so a name never runs over one
                  n == IF find(rest, QUOTE) < find(rest, MNF)
                       THEN find(rest, QUOTE) ELSE find(rest, MNF)
              IN  IF n > 1 /\ n <= Len(rest) /\ rest[n] = QUOTE
                  THEN Some(SubSeq(rest, 1, n - 1))
                  ELSE search(rest)
         ELSE search(Tail(t))

\* m.group(1).split(".")[0]
top_level(name) == SubSeq(name, 1, find(name, DOT) - 1)

\* _run_script, lines 124-132: the missing package of a finished run
missing_pkg(ok, stderr) ==
    IF ~ok /\ search(stderr) # NoneVal
    THEN Some(top_level(search(stderr)[1]))
    ELSE NoneVal

\* `if missing:` : neither None nor the empty string
truthy(missing) == missing # NoneVal /\ missing[1] # <<>>

\* class ExecResult
ExecResult(out, imgs, err, inst) ==
    [stdout |-> out, images |-> imgs, error |-> err, installed |-> inst]

NoResult == ExecResult(<<"no result">>, <<>>, <<>>, <<>>)

\* execute_python, lines 83-89: the marker-prefixed lines, marker removed
RECURSIVE image_lines(_)
image_lines(lines) ==
    IF lines = <<>> THEN <<>>
    ELSE IF lines[1] # <<>> /\ lines[1][1] = IMAGE
         THEN <<Tail(lines[1])>> \o image_lines(Tail(lines))
         ELSE image_lines(Tail(lines))

\* execute_python, lines 84-89: the other lines
RECURSIVE err_lines(_)
err_lines(lines) ==
    IF lines = <<>> THEN <<>>
    ELSE IF lines[1] # <<>> /\ lines[1][1] = IMAGE
         THEN err_lines(Tail(lines))
         ELSE <<lines[1]>> \o err_lines(Tail(lines))

\* the mutant of build_result: the error text whatever the exit status
build_result_any_exit(run, installed) ==
    LET lines == splitlines(run.stderr)
    IN  ExecResult(strip(run.stdout),
                   image_lines(lines),
                   IF err_lines(lines) # <<>>
                   THEN strip(join(err_lines(lines))) ELSE <<>>,
                   installed)

\* execute_python, lines 80-94: the ExecResult built from the latest run
build_result(run, installed) ==
    LET lines == splitlines(run.stderr)
    IN  ExecResult(strip(run.stdout),
                   image_lines(lines),
                   IF ~run.ok /\ err_lines(lines) # <<>>
                   THEN strip(join(err_lines(lines))) ELSE <<>>,
                   installed)

(***************************************************************************)
(* executor.py: what a child process can do                                *)
(***************************************************************************)
\* lines a child may write to its standard error
ErrLineSet == { <<>>,
                <<"e">>,
                <<IMAGE, "d">>,
                <<MNF, "p", DOT, "q", QUOTE>>,
                <<MNF, "r", QUOTE>>,
                <<MNF, DOT, "p", QUOTE>> }

RECURSIVE LineSeqs(_)
LineSeqs(n) == IF n = 0 THEN {<<>>}
               ELSE LineSeqs(n - 1) \cup
                    {Append(ls, l) : ls \in LineSeqs(n - 1), l \in ErrLineSet}

\* every line ends with a line end, as a child's print and traceback write them
RECURSIVE unlines(_)
unlines(lines) == IF lines = <<>> THEN <<>>
                  ELSE lines[1] \o <<NL>> \o unlines(Tail(lines))

Stderrs == {unlines(ls) : ls \in LineSeqs(MaxErrLines)}
Stdouts == { <<>>, <<" ", "h", "i", NL, NL>>, <<NL>> }

\* a child that exits on its own: what it wrote and its return code
ChildExits == [stdout : Stdouts, stderr : Stderrs, returncode : {0, 1}]

\* what the child of one script run did
Exited(c) == [kind |-> "exit", stdout |-> c.stdout, stderr |-> c.stderr,
              returncode |-> c.returncode]
TimedOut == [kind |-> "timeout", stdout |-> <<>>, stderr |-> <<>>, returncode |-> 1]
NoSpawn == [kind |-> "nospawn", stdout |-> <<>>, stderr |-> <<>>, returncode |-> 1]

(***************************************************************************)
(* executor.py: _run_script, _pip_install, execute_python                  *)
(***************************************************************************)
RunTuple(out, err, ok, missing) ==
    [stdout |-> out, stderr |-> err, ok |-> ok, missing |-> missing]

NoRun == RunTuple(<<>>, <<>>, TRUE, NoneVal)

\* the mutant of _run_script: a timed-out run reported as a successful one
run_script_timeout_ok(child) ==
    IF child.kind = "timeout"
    THEN RunTuple(<<>>, <<TIMEOUT_MSG>>, TRUE, NoneVal)
    ELSE RunTuple(child.stdout, child.stderr, child.returncode = 0,
                  missing_pkg(child.returncode = 0, child.stderr))

\* _run_script: the tuple (stdout, stderr, ok, missing_pkg) it returns for a
\* child that was spawned
_run_script(child) ==
    IF child.kind = "timeout"
    THEN RunTuple(<<>>, <<TIMEOUT_MSG>>, FALSE, NoneVal)
    ELSE RunTuple(child.stdout, child.stderr, child.returncode = 0,
                  missing_pkg(child.returncode = 0, child.stderr))

\* the mutant of wants_install: an install after any run that reports a package
wants_install_any(n, run) == truthy(run.missing)

\* execute_python, line 74: `if missing:` follows the first run only, the
\* second run's missing package is discarded (`_`)
wants_install(n, run) == n = 1 /\ truthy(run.missing)

\* the mutant of retries: the second run whatever the install did
retries_always(success) == TRUE

\* execute_python, line 76: `if await _pip_install(missing):`
retries(success) == success

\* the mutant of unlink: the file is left behind
unlink_skipped(tmp, n) == tmp

\* _run_script, lines 136-140: the finally clause removes the run's file
unlink(tmp, n) == tmp \ {n}

ScriptProc(n) == <<"script", n>>
PipProc == <<"pip", 1>>

\* execute_python is called: result = ExecResult(), the script is formatted
ExecCall ==
    /\ e_pc = "idle"
    /\ e_pc' = "run1"
    /\ UNCHANGED <<e_run, e_installed, e_result, e_tmp, e_procs, e_runs,
                   e_installs, e_child, e_pip>>
    /\ UNCHANGED <<streamVars, sessVars, agentVars>>

RunNo == IF e_pc \in {"run1", "wait1", "reap1"} THEN 1 ELSE 2

\* _run_script, lines 99-110: the temporary file is written and the child spawned
RunSpawn ==
    /\ e_pc \in {"run1", "run2"}
    /\ e_runs' = e_runs + 1
    /\ e_tmp' = e_tmp \cup {RunNo}
    /\ e_procs' = e_procs \cup {ScriptProc(RunNo)}
    /\ e_pc' = IF RunNo = 1 THEN "wait1" ELSE "wait2"
    /\ UNCHANGED <<e_run, e_installed, e_result, e_installs, e_child, e_pip>>
    /\ UNCHANGED <<streamVars, sessVars, agentVars>>

\* _run_script, lines 99-110 and 136-140: create_subprocess_exec raises, the
\* finally clause removes the file and the exception leaves execute_python
RunSpawnFails ==
    /\ e_pc \in {"run1", "run2"}
    /\ e_runs' = e_runs + 1
    /\ e_child' = Append(e_child, NoSpawn)
    /\ e_tmp' = unlink(e_tmp \cup {RunNo}, RunNo)
    /\ e_pc' = "raised"
    /\ UNCHANGED <<e_run, e_installed, e_result, e_procs, e_installs, e_pip>>
    /\ UNCHANGED <<streamVars, sessVars, agentVars>>

\* execute_python after a _run_script call returned `run`
AfterRun(n, run) ==
    /\ e_run' = run
    /\ IF wants_install(n, run)
       THEN /\ e_pc' = "pip"
            /\ e_result' = e_result
       ELSE /\ e_pc' = "done"
            /\ e_result' = build_result(run, e_installed)

\* _run_script, lines 112-134 and 136-140: the child exits within the timeout
RunExit ==
    /\ e_pc \in {"wait1", "wait2"}
    /\ \E c \in ChildExits :
         /\ e_child' = Append(e_child, Exited(c))
         /\ AfterRun(RunNo, _run_script(Exited(c)))
    /\ e_procs' = e_procs \ {ScriptProc(RunNo)}
    /\ e_tmp' = unlink(e_tmp, RunNo)
    /\ UNCHANGED <<e_installed, e_runs, e_installs, e_pip>>
    /\ UNCHANGED <<streamVars, sessVars, agentVars>>

\* _run_script, lines 112-116: TIMEOUT_SECS pass, wait_for raises TimeoutError
\* and the child is killed
RunTimeout ==
    /\ e_pc \in {"wait1", "wait2"}
    /\ e_procs' = e_procs \ {ScriptProc(RunNo)}
    /\ e_pc' = IF RunNo = 1 THEN "reap1" ELSE "reap2"
    /\ UNCHANGED <<e_run, e_installed, e_result, e_tmp, e_runs, e_installs,
                   e_child, e_pip>>
    /\ UNCHANGED <<streamVars, sessVars, agentVars>>

\* _run_script, lines 117-118 and 136-140: `await proc.communicate()` after the
\* kill returns, which it does once both pipes of the child are at their end:
\* at once when only the child held them, and when a process the child
\* started holds them, not before that process lets go of them
RunReaped ==
    /\ e_pc \in {"reap1", "reap2"}
    /\ e_child' = Append(e_child, TimedOut)
    /\ AfterRun(RunNo, _run_script(TimedOut))
    /\ e_tmp' = unlink(e_tmp, RunNo)
    /\ UNCHANGED <<e_installed, e_procs, e_runs, e_installs, e_pip>>
    /\ UNCHANGED <<streamVars, sessVars, agentVars>>

\* execute_python after _pip_install returned `success`
AfterPip(success) ==
    /\ e_pip' = IF success THEN "ok" ELSE "failed"
    /\ IF retries(success)
       THEN /\ e_installed' = Append(e_installed, e_run.missing[1])
            /\ e_pc' = "run2"
            /\ e_result' = e_result
       ELSE /\ e_installed' = e_installed
            /\ e_pc' = "done"
            /\ e_result' = build_result(e_run, e_installed)

\* _pip_install, lines 147-151: the pip process is spawned
PipSpawn ==
    /\ e_pc = "pip"
    /\ e_installs' = e_installs + 1
    /\ e_procs' = e_procs \cup {PipProc}
    /\ e_pc' = "pipwait"
    /\ UNCHANGED <<e_run, e_installed, e_result, e_tmp, e_runs, e_child, e_pip>>
    /\ UNCHANGED <<streamVars, sessVars, agentVars>>

\* _pip_install, lines 147-151 and 159-161: the spawn raises, caught, False
PipSpawnFails ==
    /\ e_pc = "pip"
    /\ e_installs' = e_installs + 1
    /\ AfterPip(FALSE)
    /\ UNCHANGED <<e_run, e_tmp, e_procs, e_runs, e_child>>
    /\ UNCHANGED <<streamVars, sessVars, agentVars>>

\* _pip_install, lines 152-158: pip exits within its 120 s
PipExit ==
    /\ e_pc = "pipwait"
    /\ \E returncode \in {0, 1} : AfterPip(returncode = 0)
    /\ e_procs' = e_procs \ {PipProc}
    /\ UNCHANGED <<e_run, e_tmp, e_runs, e_installs, e_child>>
    /\ UNCHANGED <<streamVars, sessVars, agentVars>>

\* _pip_install, lines 152 and 159-161: wait_for raises TimeoutError after 120 s,
\* caught by `except Exception`; nothing kills the pip process
PipTimeout ==
    /\ e_pc = "pipwait"
    /\ AfterPip(FALSE)
    /\ UNCHANGED <<e_run, e_tmp, e_procs, e_runs, e_installs, e_child>>
    /\ UNCHANGED <<streamVars, sessVars, agentVars>>

\* the caller's task is cancelled while execute_python awaits a child (lines
\* 112, 117 and 152): CancelledError passes the `except` clauses, the finally clause
\* of _run_script removes the file, and nothing stops the child
ExecCancelled ==
    /\ e_pc \in {"wait1", "wait2", "reap1", "reap2", "pipwait"}
    /\ e_tmp' = IF e_pc = "pipwait" THEN e_tmp ELSE unlink(e_tmp, RunNo)
    /\ e_pc' = "cancelled"
    /\ UNCHANGED <<e_run, e_installed, e_result, e_procs, e_runs, e_installs,
                   e_child, e_pip>>
    /\ UNCHANGED <<streamVars, sessVars, agentVars>>

ExecNext ==
    \/ ExecCall
    \/ RunSpawn
    \/ RunSpawnFails
    \/ RunExit
    \/ RunTimeout
    \/ RunReaped
    \/ PipSpawn
    \/ PipSpawnFails
    \/ PipExit
    \/ PipTimeout
    \/ ExecCancelled

(***************************************************************************)
(* agent.py: chat() on the AgentSessions of one process                    *)
(***************************************************************************)
Sessions == 1..NSessions

\* AgentSession(agent_id=...), lines 40-44: conversation_id is None
NewSession == [conversation_id |-> 0, pc |-> "idle", req |-> 0]

\* the mutant of starts_new: every call starts a conversation
starts_new_always(conv) == TRUE

\* line 285: `if session.conversation_id is None`
starts_new(conv) == conv = 0

\* the mutant of _get_client: a client is constructed at every call
get_client_anew(client, built) == [client |-> built + 1, built |-> built + 1]

\* _get_client() of agent.py (lines 33-37) and of transcriber.py (lines 16-20),
\* the same code in both: a plain function, so nothing else runs between its
\* test of the module's _client and its assignment. It is given the module's
\* _client and the number of clients constructed so far, and yields both
\* after the call; the client it returns is the module's _client afterwards.
_get_client(client, built) ==
    IF client = 0
    THEN [client |-> built + 1, built |-> built + 1]
    ELSE [client |-> client, built |-> built]

\* what a_got keeps of a call of _get_client
Got(module, s, client) == [module |-> module, session |-> s, client |-> client]

\* lines 283-294: chat() is called: _get_client() constructs the client if
\* there is none, then start_async or append_async is awaited
ChatCall(s) ==
    /\ a_sess[s].pc = "idle"
    /\ a_calls < MaxChats
    /\ a_calls' = a_calls + 1
    /\ a_client' = _get_client(a_client, a_built).client
    /\ a_built' = _get_client(a_client, a_built).built
    /\ a_got' = a_got \cup {Got("agent", s, a_client')}
    /\ a_sess' = [a_sess EXCEPT
                    ![s].pc = IF starts_new(a_sess[s].conversation_id)
                              THEN "start_async" ELSE "append_async",
                    ![s].req = a_sess[s].conversation_id]
    /\ UNCHANGED <<a_convs, a_log, t_client, t_built, t_calls>>
    /\ UNCHANGED <<streamVars, execVars, sessVars>>

\* what a_log keeps of a call that ended
Call(kind, before, passed, outcome, after) ==
    [kind |-> kind, before |-> before, passed |-> passed, outcome |-> outcome,
     after |-> after]

\* lines 286-297: the service answers: start_async with a conversation it has
\* just started, append_async with the conversation of the request; line 296
\* stores the answer's conversation_id
ChatResponse(s) ==
    /\ a_sess[s].pc \in {"start_async", "append_async"}
    /\ LET started == a_sess[s].pc = "start_async"
           response_conversation_id == IF started THEN a_convs + 1 ELSE a_sess[s].req
       IN  /\ a_convs' = IF started THEN a_convs + 1 ELSE a_convs
           /\ a_sess' = [a_sess EXCEPT ![s].pc = "idle",
                                       ![s].conversation_id = response_conversation_id]
           /\ a_log' = [a_log EXCEPT ![s] =
                          Append(@, Call(a_sess[s].pc, a_sess[s].conversation_id,
                                         a_sess[s].req, "returned",
                                         response_conversation_id))]
    /\ UNCHANGED <<a_client, a_built, a_calls, t_client, t_built, t_calls, a_got>>
    /\ UNCHANGED <<streamVars, execVars, sessVars>>

\* lines 286-294: the awaited call raises (the service or the network fails);
\* chat() is left before line 296
ChatError(s) ==
    /\ a_sess[s].pc \in {"start_async", "append_async"}
    /\ a_sess' = [a_sess EXCEPT ![s].pc = "idle"]
    /\ a_log' = [a_log EXCEPT ![s] =
                   Append(@, Call(a_sess[s].pc, a_sess[s].conversation_id,
                                  a_sess[s].req, "raised",
                                  a_sess[s].conversation_id))]
    /\ UNCHANGED <<a_client, a_built, a_convs, a_calls, t_client, t_built,
                   t_calls, a_got>>
    /\ UNCHANGED <<streamVars, execVars, sessVars>>

\* transcriber.py, line 50: the transcription task of a session's recording
\* calls transcribe_stream(), whose first statement is client = _get_client();
\* it may do so while the session, or another one, is inside chat()
TranscribeCall(s) ==
    /\ t_calls < MaxTranscribes
    /\ t_calls' = t_calls + 1
    /\ t_client' = _get_client(t_client, t_built).client
    /\ t_built' = _get_client(t_client, t_built).built
    /\ a_got' = a_got \cup {Got("transcriber", s, t_client')}
    /\ UNCHANGED <<a_client, a_built, a_sess, a_convs, a_calls, a_log>>
    /\ UNCHANGED <<streamVars, execVars, sessVars>>

AgentNext ==
    \E s \in Sessions :
        \/ ChatCall(s)
        \/ ChatResponse(s)
        \/ ChatError(s)
        \/ TranscribeCall(s)

(***************************************************************************)
(* server.py: pricing and the cost frame                                   *)
(*                                                                         *)
(* Money is counted in units of 1e-7 USD and time in ms, so that every     *)
(* price below is a whole number and round(x, 6) has something to round.   *)
(* Arithmetic is exact: the binary rounding of Python floats is not        *)
(* modelled.                                                               *)
(***************************************************************************)
PRICE_STT_PER_MIN == 60000           \* 0.006 USD per minute
PRICE_INPUT_PER_TOKEN == 20          \* 2.0 / 1_000_000 USD
PRICE_OUTPUT_PER_TOKEN == 60         \* 6.0 / 1_000_000 USD
PRICE_CODE_EXEC == 300000            \* 0.03 USD

\* round(): to the nearest multiple of `step`, a tie to the even multiple
round_to(x, step) ==
    LET q == x \div step
        r == x % step
    IN  IF 2 * r < step THEN q * step
        ELSE IF 2 * r > step THEN (q + 1) * step
        ELSE IF q % 2 = 0 THEN q * step ELSE (q + 1) * step

\* round(x, 6) of an amount in USD
round6(x) == round_to(x, 10)

\* line 126: stt_cost = audio_mins * PRICE_STT_PER_MIN, audio_mins = ms / 60000
stt_cost_of(audio_ms) == (audio_ms * PRICE_STT_PER_MIN) \div 60000

\* line 112: audio_secs = time.monotonic() - recording_start if recording_start else 0
audio_secs(t, start) == IF start # 0 THEN t - start ELSE 0

\* the initial `totals` dict
ZeroTotals ==
    [stt_cost |-> 0, input_tokens |-> 0, output_tokens |-> 0, agent_cost_in |-> 0,
     agent_cost_out |-> 0, code_executions |-> 0, exec_cost |-> 0, total_cost |-> 0,
     audio_minutes |-> 0]

\* _send_costs: the cost frame; audio_sec and audio_minutes are kept in ms,
\* rounded to 0.1 s and to 0.01 min
\* (totals, req_audio_min, req_input_tokens, req_output_tokens, req_code_execs,
\*  req_stt_cost, req_agent_cost_in, req_agent_cost_out, req_exec_cost)
_send_costs(tot, req_audio_ms, req_in, req_out, req_execs, req_stt, req_cin, req_cout, req_exec) ==
    [type |-> "cost",
     request |->
       [audio_sec |-> round_to(req_audio_ms, 100),
        input_tokens |-> req_in,
        output_tokens |-> req_out,
        code_executions |-> req_execs,
        stt_cost |-> round6(req_stt),
        agent_cost_in |-> round6(req_cin),
        agent_cost_out |-> round6(req_cout),
        exec_cost |-> round6(req_exec),
        total |-> round6(req_stt + req_cin + req_cout + req_exec)],
     session |->
       [audio_minutes |-> round_to(tot.audio_minutes, 600),
        input_tokens |-> tot.input_tokens,
        output_tokens |-> tot.output_tokens,
        code_executions |-> tot.code_executions,
        stt_cost |-> round6(tot.stt_cost),
        agent_cost_in |-> round6(tot.agent_cost_in),
        agent_cost_out |-> round6(tot.agent_cost_out),
        exec_cost |-> round6(tot.exec_cost),
        total |-> round6(tot.total_cost)]]

\* the other frames of _send
Status(st, msg) == [type |-> "status", status |-> st, message |-> msg]
TranscriptFrame(text) == [type |-> "transcript", text |-> text]
CodeFrame(lang, content) == [type |-> "code", language |-> lang, content |-> content]
MessageFrame(text) == [type |-> "message", text |-> text]
OutputFrame(content) == [type |-> "output", content |-> content]
ImageFrame(data) == [type |-> "image", data |-> data]

(***************************************************************************)
(* server.py: what the collaborators can answer                            *)
(***************************************************************************)
Deltas == { <<" ">>, <<"h", "i">> }      \* non-empty texts of delta events

Langs == {"Python", "html"}              \* language tags of assistant blocks
\* the mutant of EXEC_LANGS: markup is run too
EXEC_LANGS_html == {"python", "py", "bash", "sh", "html"}

EXEC_LANGS == {"python", "py", "bash", "sh"}

\* str.lower() on the language tags that occur
lower(l) == IF l = "Python" THEN "python" ELSE l

\* code_blocks of a response: block i has content i (agent.py drops repeated contents)
RECURSIVE BlockSeqs(_)
BlockSeqs(n) ==
    IF n = 0 THEN {<<>>}
    ELSE BlockSeqs(n - 1) \cup
         {Append(bs, [language |-> l, content |-> Len(bs) + 1]) :
             bs \in {b \in BlockSeqs(n - 1) : Len(b) = n - 1}, l \in Langs}

\* text and usage of a response; texts of the model hold no code fence, so the
\* text with the fences removed (line 168) is the text itself, trimmed
Answers ==
    { [text |-> <<>>,
       usage |-> [prompt_tokens |-> 0, completion_tokens |-> 0, code_executions |-> 0]],
      [text |-> <<"t">>,
       usage |-> [prompt_tokens |-> 3, completion_tokens |-> 2, code_executions |-> 1]] }

\* AgentResponse
Responses ==
    { [code_blocks |-> b, text |-> a.text, usage |-> a.usage] :
        b \in BlockSeqs(MaxBlocks), a \in Answers }

NoResponse == [code_blocks |-> <<>>, text |-> <<>>,
               usage |-> [prompt_tokens |-> 0, completion_tokens |-> 0,
                          code_executions |-> 0]]

\* ExecResults execute_python returns to the handler
SessExecResults ==
    { ExecResult(<<>>, <<>>, <<>>, <<>>),
      ExecResult(<<"h", "i">>, << <<"d">> >>, <<"e">>, << <<"p">> >>) }

\* client-supplied code of run_code
Codes == { <<>>, <<" ">>, <<"x">> }

\* "".join(parts)
RECURSIVE concat(_)
concat(parts) == IF parts = <<>> THEN <<>> ELSE Head(parts) \o concat(Tail(parts))

RECURSIVE image_frames(_)
image_frames(imgs) ==
    IF imgs = <<>> THEN <<>> ELSE <<ImageFrame(Head(imgs))>> \o image_frames(Tail(imgs))

\* lines 156-163 and 209-216: the frames that report an ExecResult
exec_frames(r) ==
    (IF r.installed # <<>> THEN <<MessageFrame(<<"Auto-installed">> \o r.installed)>>
     ELSE <<>>)
    \o (IF r.stdout # <<>> THEN <<OutputFrame(r.stdout)>> ELSE <<>>)
    \o image_frames(r.images)
    \o (IF r.error # <<>> THEN <<OutputFrame(<<"[stderr]", NL>> \o r.error)>> ELSE <<>>)

(***************************************************************************)
(* server.py: websocket_endpoint                                           *)
(***************************************************************************)
NoTurnLocals == [audio_ms |-> 0, stt_cost |-> 0, resp |-> NoResponse, i |-> 0]

\* history of the latest `end`
NoTurn == [outcome |-> "none", elapsed |-> 0, span |-> FALSE, span_error |-> FALSE,
           empty |-> FALSE, chats |-> 0, execs |-> 0, captured |-> 0,
           blocks |-> <<>>, raised |-> "none", cmd |-> "none", code |-> <<>>]

\* history of a frame that is no `end`
Cmd(c) == [NoTurn EXCEPT !.cmd = c]

Task(st, err, saw) == [state |-> st, errored |-> err, saw_end |-> saw]

Finished(t) == t.state \in {"done", "cancelled"}

\* lines 119 and 123: the handler drops its references to the awaited task and
\* to its stream; nothing else holds them, so the objects are gone
Released == Task("released", FALSE, FALSE)

\* the clock advances. The handler reads it at lines 104 and 112 only, both
\* right after a receive, so time that passes while it awaits something else
\* is the same as time that passes once it is back at its receive; and line
\* 112 uses the clock only against a recording_start, so time that passes
\* before the first `start` is never measured.
Tick ==
    /\ g_exit = "open"
    /\ h_pc = "receive"
    /\ recording_start # 0
    /\ now < TickMs * (MaxTicks + 1)
    /\ now' = now + TickMs
    /\ UNCHANGED <<handlerVars, streams, tasks, frames, histVars>>
    /\ UNCHANGED <<streamVars, execVars, agentVars>>

\* a text frame arrives at `await ws.receive()`
Receives ==
    /\ h_pc = "receive"
    /\ g_exit = "open"
    /\ g_cmds < MaxCmds
    /\ g_cmds' = g_cmds + 1

\* lines 101-108: {"cmd": "start"}
RecvStart ==
    /\ Receives
    /\ Len(tasks) < MaxStarts
    /\ streams' = Append(streams, <<>>)
    /\ audio_stream' = Len(streams) + 1
    /\ transcript_parts' = <<>>
    /\ g_deltas' = [g_deltas EXCEPT !.foreign = 0]
    /\ recording_start' = now
    /\ tasks' = Append(tasks, Task("running", FALSE, FALSE))
    /\ transcribe_task' = Len(tasks) + 1
    /\ frames' = <<Status("transcribing", "Listening")>>
    /\ g_turn' = Cmd("start")
    /\ g_started' = <<>>
    /\ UNCHANGED <<h_pc, totals, conversation_id, h_turn, now, g_bins,
                   g_chats, g_inflight, g_cost, g_exit>>
    /\ UNCHANGED <<streamVars, execVars, agentVars>>

\* the cost frame and its place in the history
SendCosts(frame) ==
    g_cost' = [n |-> g_cost.n + 1, req_sum |-> g_cost.req_sum + frame.request.total]

\* lines 165-199: after the last block: the message, the ledger, the cost frame
FinishTurn(resp, sent, inflight, turn) ==
    LET u == resp.usage
        req_agent_cost_in == u.prompt_tokens * PRICE_INPUT_PER_TOKEN
        req_agent_cost_out == u.completion_tokens * PRICE_OUTPUT_PER_TOKEN
        req_exec_cost == u.code_executions * PRICE_CODE_EXEC
        t1 == [totals EXCEPT
                 !.input_tokens = @ + u.prompt_tokens,
                 !.output_tokens = @ + u.completion_tokens,
                 !.agent_cost_in = @ + req_agent_cost_in,
                 !.agent_cost_out = @ + req_agent_cost_out,
                 !.code_executions = @ + u.code_executions,
                 !.exec_cost = @ + req_exec_cost]
        t2 == [t1 EXCEPT !.total_cost = t1.stt_cost + t1.agent_cost_in
                                         + t1.agent_cost_out + t1.exec_cost]
        cost == _send_costs(t2, h_turn.audio_ms, u.prompt_tokens, u.completion_tokens,
                            u.code_executions, h_turn.stt_cost, req_agent_cost_in,
                            req_agent_cost_out, req_exec_cost)
    IN  /\ totals' = t2
        /\ frames' = sent
                     \o (IF strip(resp.text) # <<>> THEN <<MessageFrame(strip(resp.text))>>
                         ELSE IF resp.text # <<>> /\ resp.code_blocks = <<>>
                              THEN <<MessageFrame(resp.text)>> ELSE <<>>)
                     \o <<cost, Status("ready", "Ready")>>
        /\ SendCosts(cost)
        /\ h_pc' = "receive"
        /\ h_turn' = NoTurnLocals
        /\ g_turn' = [turn EXCEPT !.outcome = "complete"]
        /\ g_inflight' = inflight
        /\ UNCHANGED g_started

\* the mutant of next_block: the loop skips the block after an executed one
next_block_skip(i) == i + 2

\* line 148: the for loop goes on with the block after block i
next_block(i) == i + 1

\* lines 148-154: from block i on, the code frames up to and including the
\* first executable block; `at` is that block, Len(blocks)+1 when there is none
RECURSIVE scan(_, _)
scan(blocks, i) ==
    IF i > Len(blocks) THEN [sent |-> <<>>, at |-> Len(blocks) + 1]
    ELSE LET lang == lower(blocks[i].language)
             code == CodeFrame(lang, blocks[i].content)
         IN  IF lang \in EXEC_LANGS
             THEN [sent |-> <<code, Status("executing", "Executing code")>>, at |-> i]
             ELSE LET r == scan(blocks, i + 1)
                  IN  [sent |-> <<code>> \o r.sent, at |-> r.at]

\* lines 148-199: the loop over the blocks from block i on, up to its next await
RunBlocks(resp, i, sent, inflight, turn) ==
    LET sc == scan(resp.code_blocks, i)
    IN  IF sc.at <= Len(resp.code_blocks)
        THEN /\ h_pc' = "exec"
             /\ h_turn' = [h_turn EXCEPT !.resp = resp, !.i = sc.at]
             /\ frames' = sent \o sc.sent
             /\ g_inflight' = inflight + 1
             /\ g_started' = Append(g_started, sc.at)
             /\ g_turn' = [turn EXCEPT !.outcome = "executing", !.execs = @ + 1]
             /\ UNCHANGED <<totals, g_cost>>
        ELSE FinishTurn(resp, sent \o sc.sent, inflight, turn)

\* the mutant of drop_stream: the handler keeps the stream it has ended
drop_stream_kept(s) == s

\* line 123: audio_stream = None
drop_stream(s) == 0

\* lines 121-144: the `end` branch once the transcription task has been awaited
EndContinue(audio_ms, turn) ==
    LET full_transcript == strip(concat(transcript_parts))
        stt_cost == stt_cost_of(audio_ms)
        t1 == [totals EXCEPT !.audio_minutes = @ + audio_ms, !.stt_cost = @ + stt_cost]
        cost == _send_costs(t1, audio_ms, 0, 0, 0, stt_cost, 0, 0, 0)
    IN  /\ transcribe_task' = 0
        /\ transcript_parts' = <<>>
        /\ g_deltas' = [g_deltas EXCEPT !.foreign = 0]
        /\ audio_stream' = drop_stream(audio_stream)
        /\ tasks' = IF transcribe_task # 0
                    THEN [tasks EXCEPT ![transcribe_task] = Released]
                    ELSE tasks
        /\ streams' = IF audio_stream # 0
                      THEN [streams EXCEPT ![audio_stream] = <<>>]
                      ELSE streams
        /\ totals' = t1
        /\ IF full_transcript = <<>>
           THEN /\ frames' = <<Status("ready", "No speech detected"), cost>>
                /\ SendCosts(cost)
                /\ h_pc' = "receive"
                /\ h_turn' = NoTurnLocals
                /\ g_turn' = [turn EXCEPT !.outcome = "nospeech", !.empty = TRUE]
                /\ UNCHANGED g_chats
           ELSE /\ frames' = <<TranscriptFrame(full_transcript),
                               Status("thinking", "Agent is thinking")>>
                /\ h_pc' = "chat"
                /\ h_turn' = [audio_ms |-> audio_ms, stt_cost |-> stt_cost,
                              resp |-> NoResponse, i |-> 0]
                /\ g_turn' = [turn EXCEPT !.outcome = "generating", !.chats = @ + 1]
                /\ g_chats' = g_chats + 1
                /\ UNCHANGED g_cost

\* lines 110-118: {"cmd": "end"}
RecvEnd ==
    /\ Receives
    /\ LET audio_ms == audio_secs(now, recording_start)
           turn == [Cmd("end") EXCEPT
                      !.outcome = "awaiting",
                      !.span = audio_stream # 0,
                      !.elapsed = IF audio_stream # 0 THEN now - recording_start ELSE 0,
                      !.span_error = transcribe_task # 0 /\ tasks[transcribe_task].errored]
       IN  IF transcribe_task # 0 /\ ~Finished(tasks[transcribe_task])
              THEN /\ streams' = IF audio_stream # 0
                                 THEN [streams EXCEPT ![audio_stream] = end(@)]
                                 ELSE streams
                   /\ h_pc' = "await_task"
                   /\ h_turn' = [NoTurnLocals EXCEPT !.audio_ms = audio_ms]
                   /\ g_turn' = turn
                   /\ frames' = <<>>
                   /\ UNCHANGED <<audio_stream, transcribe_task, transcript_parts,
                                  totals, tasks, g_deltas, g_chats, g_cost>>
              ELSE EndContinue(audio_ms, turn)
    /\ g_started' = <<>>
    /\ UNCHANGED <<recording_start, conversation_id, now, g_bins,
                   g_inflight, g_exit>>
    /\ UNCHANGED <<streamVars, execVars, agentVars>>

\* line 118: `await transcribe_task` returns
AwaitTask ==
    /\ h_pc = "await_task"
    /\ Finished(tasks[transcribe_task])
    /\ EndContinue(h_turn.audio_ms,
                   [g_turn EXCEPT !.span_error = tasks[transcribe_task].errored])
    /\ UNCHANGED <<recording_start, conversation_id, now, g_cmds,
                   g_bins, g_inflight, g_started, g_exit>>
    /\ UNCHANGED <<streamVars, execVars, agentVars>>

\* agent.py, chat, lines 284-296: the conversation the call leaves in the
\* session: a new one (numbered 1) after start_async, the same after append_async
chat(conv) == IF conv = 0 THEN 1 ELSE conv

\* line 140: the assistant call returns, and the loop over the blocks begins
ChatReturns ==
    /\ h_pc = "chat"
    /\ \E resp \in Responses :
         /\ conversation_id' = chat(conversation_id)
         /\ RunBlocks(resp, 1, frames, g_inflight,
                      [g_turn EXCEPT !.blocks = resp.code_blocks])
    /\ UNCHANGED <<audio_stream, transcribe_task, transcript_parts, recording_start,
                   now, streams, tasks, g_cmds, g_bins, g_deltas, g_chats, g_exit>>
    /\ UNCHANGED <<streamVars, execVars, agentVars>>

\* lines 141-144: the assistant call raises
ChatRaises ==
    /\ h_pc = "chat"
    /\ frames' = Append(frames, Status("error", "Agent error"))
    /\ h_pc' = "receive"
    /\ h_turn' = NoTurnLocals
    /\ g_turn' = [g_turn EXCEPT !.outcome = "agent_error", !.raised = "chat"]
    /\ UNCHANGED <<audio_stream, transcribe_task, transcript_parts, recording_start,
                   totals, conversation_id, now, streams, tasks, g_cmds, g_bins,
                   g_deltas, g_chats, g_inflight, g_started, g_cost, g_exit>>
    /\ UNCHANGED <<streamVars, execVars, agentVars>>

\* lines 155-163: execute_python returns for the block being run, and the loop goes on
ExecReturns ==
    /\ h_pc = "exec"
    /\ \E exec_result \in SessExecResults :
         RunBlocks(h_turn.resp, next_block(h_turn.i),
                   frames \o exec_frames(exec_result), g_inflight - 1,
                   [g_turn EXCEPT !.captured = @ + 1])
    /\ UNCHANGED <<audio_stream, transcribe_task, transcript_parts, recording_start,
                   conversation_id, now, streams, tasks, g_cmds, g_bins, g_deltas,
                   g_chats, g_exit>>
    /\ UNCHANGED <<streamVars, execVars, agentVars>>

\* lines 229-234: an exception that is not WebSocketDisconnect leaves the loop
Fault(turn) ==
    /\ frames' = Append(frames, Status("error", "Internal error"))
    /\ h_pc' = "closed"
    /\ g_exit' = "fault"
    /\ g_turn' = turn

\* line 155: execute_python raises (the child cannot be spawned); nothing
\* catches it before the handler's outer except
ExecRaises ==
    /\ h_pc = "exec"
    /\ g_inflight' = g_inflight - 1
    /\ Fault([g_turn EXCEPT !.outcome = "crashed", !.raised = "exec"])
    /\ UNCHANGED <<audio_stream, transcribe_task, transcript_parts, recording_start,
                   totals, conversation_id, h_turn, now, streams, tasks, g_cmds,
                   g_bins, g_deltas, g_chats, g_started, g_cost>>
    /\ UNCHANGED <<streamVars, execVars, agentVars>>

\* lines 201-208: {"cmd": "run_code", "code": ..., "language": ...}
RecvRunCode ==
    /\ Receives
    /\ \E code \in Codes, language \in {"Python", "html"} :
         IF strip(code) = <<>>
         THEN /\ frames' = <<Status("ready", "Ready")>>
              /\ g_turn' = Cmd("run_code")
              /\ UNCHANGED <<h_pc, g_inflight>>
         ELSE /\ frames' = <<Status("executing", "Executing code")>>
              /\ h_pc' = "exec_run_code"
              /\ g_inflight' = g_inflight + 1
              /\ g_turn' = [Cmd("run_code") EXCEPT !.code = strip(code), !.execs = 1]
    /\ g_started' = <<>>
    /\ UNCHANGED <<audio_stream, transcribe_task, transcript_parts, recording_start,
                   totals, conversation_id, h_turn, now, streams, tasks, g_bins,
                   g_deltas, g_chats, g_cost, g_exit>>
    /\ UNCHANGED <<streamVars, execVars, agentVars>>

\* lines 208-217: execute_python returns for run_code
RunCodeReturns ==
    /\ h_pc = "exec_run_code"
    /\ \E exec_result \in SessExecResults :
         frames' = frames \o exec_frames(exec_result) \o <<Status("ready", "Ready")>>
    /\ h_pc' = "receive"
    /\ g_inflight' = g_inflight - 1
    /\ UNCHANGED <<audio_stream, transcribe_task, transcript_parts, recording_start,
                   totals, conversation_id, h_turn, now, streams, tasks, g_cmds,
                   g_bins, g_deltas, g_chats, g_started, g_turn, g_cost, g_exit>>
    /\ UNCHANGED <<streamVars, execVars, agentVars>>

\* line 208: execute_python raises for run_code
RunCodeRaises ==
    /\ h_pc = "exec_run_code"
    /\ g_inflight' = g_inflight - 1
    /\ Fault(g_turn)
    /\ UNCHANGED <<audio_stream, transcribe_task, transcript_parts, recording_start,
                   totals, conversation_id, h_turn, now, streams, tasks, g_cmds,
                   g_bins, g_deltas, g_chats, g_started, g_cost>>
    /\ UNCHANGED <<streamVars, execVars, agentVars>>

\* lines 99-101, 110, 201: a command that is none of start, end, run_code
RecvOther ==
    /\ Receives
    /\ frames' = <<>>
    /\ g_turn' = Cmd("other")
    /\ g_started' = <<>>
    /\ UNCHANGED <<handlerVars, now, streams, tasks, g_bins, g_deltas, g_chats,
                   g_inflight, g_cost, g_exit>>
    /\ UNCHANGED <<streamVars, execVars, agentVars>>

\* line 98: json.loads raises on a text frame that is not JSON
RecvMalformed ==
    /\ Receives
    /\ frames' = <<Status("error", "Internal error")>>
    /\ h_pc' = "closed"
    /\ g_exit' = "fault"
    /\ g_turn' = Cmd("malformed")
    /\ g_started' = <<>>
    /\ UNCHANGED <<audio_stream, transcribe_task, transcript_parts, recording_start,
                   totals, conversation_id, h_turn, now, streams, tasks, g_bins,
                   g_deltas, g_chats, g_inflight, g_cost>>
    /\ UNCHANGED <<streamVars, execVars, agentVars>>

\* lines 219-221: a binary frame; an empty one, or one without a stream, is dropped
RecvBytes ==
    /\ h_pc = "receive"
    /\ g_exit = "open"
    /\ g_bins < MaxBins
    /\ g_bins' = g_bins + 1
    /\ \E bytes \in {"pcm1", ""} :
         streams' = IF bytes # "" /\ audio_stream # 0
                    THEN [streams EXCEPT ![audio_stream] = push(@, bytes)]
                    ELSE streams
    /\ frames' = <<>>
    /\ g_turn' = Cmd("bytes")
    /\ g_started' = <<>>
    /\ UNCHANGED <<handlerVars, now, tasks, g_cmds, g_deltas, g_chats, g_inflight,
                   g_cost, g_exit>>
    /\ UNCHANGED <<streamVars, execVars, agentVars>>

\* lines 223-228: the client disconnects and `ws.receive()` raises
\* WebSocketDisconnect: the stream is ended, the task cancelled
Disconnect ==
    /\ h_pc = "receive"
    /\ g_exit = "open"
    /\ streams' = IF audio_stream # 0
                  THEN [streams EXCEPT ![audio_stream] = end(@)]
                  ELSE streams
    /\ tasks' = IF transcribe_task # 0 /\ ~Finished(tasks[transcribe_task])
                THEN [tasks EXCEPT ![transcribe_task].state = "cancelling"]
                ELSE tasks
    /\ h_pc' = "closed"
    /\ g_exit' = "disconnect"
    /\ frames' = <<>>
    /\ g_turn' = Cmd("disconnect")
    /\ g_started' = <<>>
    /\ UNCHANGED <<audio_stream, transcribe_task, transcript_parts, recording_start,
                   totals, conversation_id, h_turn, now, g_cmds, g_bins, g_deltas,
                   g_chats, g_inflight, g_cost>>
    /\ UNCHANGED <<streamVars, execVars, agentVars>>

(***************************************************************************)
(* server.py: _run_transcription, one background task per `start`          *)
(***************************************************************************)
\* the service client takes the next item of the task's AudioStream
TaskAnext(t) ==
    /\ tasks[t].state = "running"
    /\ ~tasks[t].saw_end
    /\ streams[t] # <<>>
    /\ streams' = [streams EXCEPT ![t] = __anext__(@)[2]]
    /\ tasks' = [tasks EXCEPT ![t].saw_end = __anext__(streams[t])[1] = StopAsyncIteration]
    /\ UNCHANGED <<handlerVars, now, frames, histVars>>
    /\ UNCHANGED <<streamVars, execVars, agentVars>>

\* lines 85-87: a delta arrives: appended to transcript_parts and sent
TaskDelta(t) ==
    /\ tasks[t].state = "running"
    /\ g_deltas.n < MaxDeltas
    /\ g_deltas' = [n |-> g_deltas.n + 1,
                    foreign |-> g_deltas.foreign + IF t = transcribe_task THEN 0 ELSE 1]
    /\ \E delta \in Deltas : transcript_parts' = Append(transcript_parts, delta)
    /\ UNCHANGED <<h_pc, audio_stream, transcribe_task, recording_start, totals,
                   conversation_id, h_turn, envVars, g_cmds, g_bins, g_chats,
                   g_inflight, g_started, g_turn, g_cost, g_exit>>
    /\ UNCHANGED <<streamVars, execVars, agentVars>>

\* lines 88-90 and transcriber.py 62-64: the service reports an error, the
\* RuntimeError is caught, an error status is sent and the task ends
TaskError(t) ==
    /\ tasks[t].state = "running"
    /\ tasks' = [tasks EXCEPT ![t] = Task("done", TRUE, @.saw_end)]
    /\ UNCHANGED <<handlerVars, now, streams, frames, histVars>>
    /\ UNCHANGED <<streamVars, execVars, agentVars>>

\* the service closes its event stream after the end of the audio: the task ends
TaskFinish(t) ==
    /\ tasks[t].state = "running"
    /\ tasks[t].saw_end
    /\ tasks' = [tasks EXCEPT ![t].state = "done"]
    /\ UNCHANGED <<handlerVars, now, streams, frames, histVars>>
    /\ UNCHANGED <<streamVars, execVars, agentVars>>

\* the event loop delivers the CancelledError of task.cancel()
TaskCancelled(t) ==
    /\ tasks[t].state = "cancelling"
    /\ tasks' = [tasks EXCEPT ![t].state = "cancelled"]
    /\ UNCHANGED <<handlerVars, now, streams, frames, histVars>>
    /\ UNCHANGED <<streamVars, execVars, agentVars>>

TaskNext ==
    \E t \in 1..Len(tasks) :
        \/ TaskAnext(t)
        \/ TaskDelta(t)
        \/ TaskError(t)
        \/ TaskFinish(t)
        \/ TaskCancelled(t)

Next ==
    \/ Tick
    \/ RecvStart
    \/ RecvEnd
    \/ AwaitTask
    \/ ChatReturns
    \/ ChatRaises
    \/ ExecReturns
    \/ ExecRaises
    \/ RecvRunCode
    \/ RunCodeReturns
    \/ RunCodeRaises
    \/ RecvOther
    \/ RecvMalformed
    \/ RecvBytes
    \/ Disconnect
    \/ TaskNext

(***************************************************************************)
(* AudioStream: the consumer's view                                        *)
(***************************************************************************)
\* index of the first StopAsyncIteration in got, 0 when there is none
FirstStop == IF \E i \in 1..Len(got) : got[i] = StopAsyncIteration
             THEN CHOOSE i \in 1..Len(got) :
                    /\ got[i] = StopAsyncIteration
                    /\ \A j \in 1..(i-1) : got[j] # StopAsyncIteration
             ELSE 0

\* what one iteration (async for) over the stream receives: got up to its first stop
Iterated == IF FirstStop = 0 THEN got ELSE SubSeq(got, 1, FirstStop - 1)

IsPrefix(s, t) == Len(s) <= Len(t) /\ SubSeq(t, 1, Len(s)) = s

\* C1: the iterating consumer receives the chunks pushed before end() in push
\* order, each exactly once (what it has so far is a prefix of them), and when
\* its iteration has stopped it has received exactly all of them.
C1_Fifo ==
    /\ IsPrefix(Iterated, beforeEnd)
    /\ ends = 0 => /\ FirstStop = 0
                   /\ Iterated \o queue = beforeEnd
    /\ FirstStop # 0 => Iterated = beforeEnd

C1_Witness ==
    /\ FirstStop # 0
    /\ Len(beforeEnd) >= 2
    /\ beforeEnd[1] # beforeEnd[2]
    /\ Iterated = beforeEnd

\* C16 as stated: once the consumer has been signalled the end of the stream,
\* no further attempt to consume yields a chunk: everything the consumer got
\* after its first StopAsyncIteration is again StopAsyncIteration.
C16_AsStated ==
    FirstStop # 0 =>
        \A i \in (FirstStop + 1)..Len(got) : got[i] \notin Chunks

(***************************************************************************)
(* execute_python: missing dependency, retry bound, timeout                *)
(***************************************************************************)
\* the first run exited non-zero with a module-not-found signature on stderr
FirstRunMissing ==
    /\ Len(e_child) >= 1
    /\ e_child[1].kind = "exit"
    /\ e_child[1].returncode # 0
    /\ search(e_child[1].stderr) # NoneVal

\* the package the signature of the first run names
FirstRunPackage == top_level(search(e_child[1].stderr)[1])

\* what the claim says of a finished call whose first run missed a module
MissingDepOutcome ==
    /\ e_installs = 1
    /\ e_pip = "ok" =>
         /\ e_runs = 2
         /\ Len(e_child) = 2
         /\ e_result = build_result(_run_script(e_child[2]), <<FirstRunPackage>>)
    /\ e_pip # "ok" =>
         /\ e_runs = 1
         /\ e_result.stdout = strip(e_child[1].stdout)
         /\ e_result = build_result(_run_script(e_child[1]), <<>>)
         /\ e_result.installed = <<>>

\* C3 as stated: every call that has returned after a first run with a
\* module-not-found signature made exactly one install attempt; the result is
\* the second run's with installed = [package] if the install succeeded, and
\* the first run's with installed empty if it failed.
C3_AsStated == (e_pc = "done" /\ FirstRunMissing) => MissingDepOutcome

\* C3 (amended): the same, for a signature whose top-level package name is not
\* empty; a name that starts with a dot has an empty top-level package, and
\* then nothing is installed and the first run's result is returned.
C3_MissingDependency ==
    /\ (e_pc = "done" /\ FirstRunMissing /\ FirstRunPackage # <<>>)
         => MissingDepOutcome
    /\ (e_pc = "done" /\ FirstRunMissing /\ FirstRunPackage = <<>>)
         => /\ e_installs = 0
            /\ e_runs = 1
            /\ e_result = build_result(_run_script(e_child[1]), <<>>)

C3_Witness ==
    /\ e_pc = "done"
    /\ FirstRunMissing
    /\ FirstRunPackage = <<"p">>
    /\ e_pip = "ok"
    /\ e_result.installed = <<<<"p">>>>
    /\ e_child[2].kind = "exit"
    /\ e_child[2].returncode = 0
    /\ e_result.stdout = <<"h", "i">>

\* C4: at most two runs and one install per call; an install only after a
\* first run that exited non-zero with the module-not-found signature, and
\* before any second run; a second run is final, whatever it reports.
C4_RetryBound ==
    /\ e_runs <= 2
    /\ e_installs <= 1
    /\ e_installs = 1 => FirstRunMissing
    /\ (e_installs = 1 /\ e_pip = "none") => e_runs = 1
    /\ e_runs = 2 => /\ e_installs = 1
                     /\ e_pip = "ok"
    /\ Len(e_child) = 2 =>
         /\ e_pc \in {"done", "raised"}
         /\ e_pc = "done" =>
              e_result = build_result(_run_script(e_child[2]), e_installed)

C4_Witness ==
    /\ e_pc = "done"
    /\ Len(e_child) = 2
    /\ e_child[2].kind = "exit"
    /\ e_child[2].returncode # 0
    /\ search(e_child[2].stderr) = Some(<<"r">>)
    /\ e_installed = <<<<"p">>>>
    /\ e_result.error = <<MNF, "r", QUOTE>>

\* C5: a run that timed out is the last run of its call: its child is no
\* longer running, no install and no further run follows it, and the call
\* returns at once a result with the timeout message as its error, an empty
\* stdout and no image.
C5_TimeoutFatal ==
    \A i \in 1..Len(e_child) :
        e_child[i].kind = "timeout" =>
            /\ i = Len(e_child)
            /\ e_runs = i
            /\ ScriptProc(i) \notin e_procs
            /\ i = 1 => e_installs = 0
            /\ e_pc = "done"
            /\ e_result.error = <<TIMEOUT_MSG>>
            /\ e_result.error # <<>>
            /\ e_result.stdout = <<>>
            /\ e_result.images = <<>>

C5_Witness ==
    /\ Len(e_child) = 2
    /\ e_child[2].kind = "timeout"
    /\ e_pc = "done"
    /\ e_result.installed # <<>>
    /\ e_result.error = <<TIMEOUT_MSG>>

Marked(line) == line # <<>> /\ line[1] = IMAGE
Unmarked(line) == ~Marked(line)
FinalChild == e_child[Len(e_child)]

C22_Demultiplexed ==
    (e_pc = "done" /\ FinalChild.kind = "exit") =>
        LET lines == splitlines(FinalChild.stderr)
            marked == SelectSeq(lines, Marked)
        IN  /\ e_result.stdout = strip(FinalChild.stdout)
            /\ e_result.images = [i \in 1..Len(marked) |-> Tail(marked[i])]
            /\ e_result.error = IF FinalChild.returncode # 0
                                THEN strip(join(SelectSeq(lines, Unmarked)))
                                ELSE <<>>
            /\ e_result.error # <<>> => FinalChild.returncode # 0

C22_Witness ==
    /\ e_pc = "done"
    /\ FinalChild.kind = "exit"
    /\ FinalChild.returncode = 1
    /\ FinalChild.stdout = <<" ", "h", "i", NL, NL>>
    /\ FinalChild.stderr = <<IMAGE, "d", NL, "e", NL>>
    /\ e_result.stdout = <<"h", "i">>
    /\ e_result.images = <<<<"d">>>>
    /\ e_result.error = <<"e">>

\* C23 as stated: whenever an `end` computes its final transcript (lines
\* 121-122, at once or once the awaited task is back), the parts it
\* concatenates were all produced by the transcription task of the span this
\* `end` closes: no delta of an earlier or abandoned span is among them
ComputesTranscript == (RecvEnd \/ AwaitTask) /\ h_pc' # "await_task"

C23_AsStated == [][ComputesTranscript => g_deltas.foreign = 0]_vars

\* C25 as stated: what an `end` adds to the ledger's audio minutes and STT
\* cost is the time between the `start` that opened the span it closes and
\* itself, and that time's cost; an `end` that closes no span adds zero to both
C25_AsStated ==
    [][ComputesTranscript =>
         /\ totals'.audio_minutes = totals.audio_minutes + g_turn'.elapsed
         /\ totals'.stt_cost = totals.stt_cost + stt_cost_of(g_turn'.elapsed)]_vars

\* C26: each module constructs its client at most once, and every call of a
\* module's _get_client, by whichever session and in whichever order the
\* sessions' calls of chat() and transcribe_stream() interleave, returned the
\* one instance that the module holds
C26_SingletonClients ==
    /\ a_built <= 1
    /\ t_built <= 1
    /\ \A g \in a_got :
         g.client = (IF g.module = "agent" THEN a_client ELSE t_client)
    /\ \A g, h \in a_got : g.module = h.module => g.client = h.client

\* both sessions are inside chat() at the same time and both have called
\* transcribe_stream(): four calls, one client of each module
C26_Witness ==
    /\ \A s \in {1, 2} : a_sess[s].pc # "idle"
    /\ \A s \in {1, 2} : Got("agent", s, 1) \in a_got
    /\ \A s \in {1, 2} : Got("transcriber", s, 1) \in a_got
    /\ a_built = 1
    /\ t_built = 1

\* C21: every call of execute_python comes to its end: once the call is under
\* way it eventually returns a result (or leaves by an exception of the spawn
\* or by the caller's cancellation)
C21_AsStated == (e_pc = "run1") ~> (e_pc \in {"done", "raised", "cancelled"})

\* C20 as stated: when execute_python has returned or has been cancelled, no
\* child process it spawned is still running.
C20_AsStated == e_pc \in {"done", "cancelled"} => e_procs = {}

(***************************************************************************)
(* chat(): the conversation handle                                         *)
(***************************************************************************)
\* the calls of session s that returned
Returned(s) == {i \in 1..Len(a_log[s]) : a_log[s][i].outcome = "returned"}

\* C14: the handle of a session is nil exactly until its first call of chat()
\* has returned; a call made with a nil handle starts a conversation, and a
\* returned one leaves the handle of a conversation no call had started
\* before; a call made with a handle continues the conversation of that
\* handle and leaves the handle as it was; a call that raised leaves the
\* handle as it was; a handle that is set is never nil again.
C14_StickyHandle ==
    \A s \in Sessions :
        /\ a_sess[s].conversation_id = 0 <=> Returned(s) = {}
        /\ a_sess[s].pc = "start_async" => a_sess[s].conversation_id = 0
        /\ a_sess[s].pc = "append_async" =>
             /\ a_sess[s].conversation_id # 0
             /\ a_sess[s].req = a_sess[s].conversation_id
        /\ \A i \in 1..Len(a_log[s]) :
             LET c == a_log[s][i]
             IN  /\ c.before = (IF i = 1 THEN 0 ELSE a_log[s][i - 1].after)
                 /\ i = Len(a_log[s]) => c.after = a_sess[s].conversation_id
                 /\ c.kind = "start_async" <=> c.before = 0
                 /\ c.kind = "append_async" => c.passed = c.before
                 /\ c.outcome = "raised" => c.after = c.before
                 /\ c.before # 0 => c.after = c.before
                 /\ (c.before = 0 /\ c.outcome = "returned") =>
                      /\ c.after # 0
                      /\ \A t \in Sessions : \A j \in 1..Len(a_log[t]) :
                           (a_log[t][j].after = c.after /\ a_log[t][j].before = 0)
                               => (t = s /\ j = i)

C14_Witness ==
    /\ Len(a_log[1]) = 3
    /\ a_log[1][1].outcome = "raised"
    /\ a_log[1][2] = Call("start_async", 0, 0, "returned", 1)
    /\ a_log[1][3] = Call("append_async", 1, 1, "returned", 1)
    /\ a_sess[1].conversation_id = 1

(***************************************************************************)
(* The session: executions, costs, exits                                   *)
(***************************************************************************)
\* the blocks of a response that are executable, by their place in it
RECURSIVE ExecIndicesFrom(_, _)
ExecIndicesFrom(blocks, i) ==
    IF i > Len(blocks) THEN <<>>
    ELSE (IF lower(blocks[i].language) \in EXEC_LANGS THEN <<i>> ELSE <<>>)
         \o ExecIndicesFrom(blocks, i + 1)

ExecIndices(blocks) == ExecIndicesFrom(blocks, 1)

\* C2: at most one sandbox execution is in flight; the executions of a turn
\* start in the order of the executable blocks of the response, each only
\* when the result of the one before it has been captured, and a complete
\* turn has executed all of them.
C2_Sequential ==
    /\ g_inflight <= 1
    /\ g_inflight = 1 <=> h_pc \in {"exec", "exec_run_code"}
    /\ IsPrefix(g_started, ExecIndices(g_turn.blocks))
    /\ g_turn.outcome = "complete" => g_started = ExecIndices(g_turn.blocks)
    /\ Len(g_started) - g_turn.captured =
         (IF h_pc = "exec" \/ g_turn.outcome = "crashed" THEN 1 ELSE 0)

C2_Witness ==
    /\ g_turn.outcome = "complete"
    /\ g_started = <<1, 2>>
    /\ g_turn.captured = 2
    /\ g_inflight = 0

IsCode(f) == f.type = "code"

\* the `code` frames of the latest command, in order
CodeSeq == SelectSeq(frames, IsCode)

\* the executable set as the claim spells it
ExecutableTag(l) == lower(l) \in {"python", "py", "bash", "sh"}

\* the blocks the loop has reached: all of them in a complete turn, else the
\* blocks up to the one whose execution started last
Reached ==
    IF g_turn.outcome = "complete" THEN Len(g_turn.blocks)
    ELSE g_started[Len(g_started)]

RunCodeStep ==
    \/ g_cmds' # g_cmds /\ g_turn'.cmd = "run_code"
    \/ h_pc = "exec_run_code" /\ h_pc' # "exec_run_code"

\* C12 as stated: handling `run_code` issues no assistant call, sends no cost
\* frame, runs the sandbox at most once and not at all for empty code, ends
\* with the `ready` status and the session back at its receive, and no step
\* of it changes the conversation handle, the ledger, the transcript
\* accumulator, the active AudioStream or the transcription task.
C12_AsStated ==
    /\ [](g_turn.cmd = "run_code" =>
            /\ g_turn.chats = 0
            /\ \A i \in 1..Len(frames) : frames[i].type # "cost"
            /\ g_turn.execs <= 1
            /\ g_turn.code = <<>> => g_turn.execs = 0
            /\ h_pc \in {"receive", "exec_run_code"}
            /\ h_pc = "receive" =>
                 /\ frames # <<>>
                 /\ frames[Len(frames)] = Status("ready", "Ready")
                 /\ g_exit = "open")
    /\ [][RunCodeStep =>
            UNCHANGED <<conversation_id, totals, transcript_parts, audio_stream,
                        transcribe_task, g_chats, g_cost>>]_vars

\* a transcription task that has not finished
Unfinished(t) == tasks[t].state \in {"running", "cancelling"}

\* C13 as stated: once the handler has finished an `end` (no speech, assistant
\* error or complete turn) the session is idle: the handler is at its receive,
\* there is no active AudioStream, no transcription task is unfinished and
\* the transcript accumulator is empty.
C13_AsStated ==
    g_turn.outcome \in {"nospeech", "agent_error", "complete"} =>
        /\ h_pc = "receive"
        /\ g_exit = "open"
        /\ audio_stream = 0
        /\ transcribe_task = 0
        /\ \A t \in 1..Len(tasks) : ~Unfinished(t)
        /\ transcript_parts = <<>>

\* C15 as stated: a session never has more than one unfinished transcription
\* task at the same time.
C15_AsStated == Cardinality({t \in 1..Len(tasks) : Unfinished(t)}) <= 1

\* the cost frame among the frames of the latest command, if any
CostFrames == {i \in 1..Len(frames) : frames[i].type = "cost"}

\* C6 as stated: an `end` whose transcript is empty issues no assistant call
\* and no execution, sends the no-speech status and one cost frame with zero
\* tokens and executions and an audio cost of the elapsed recording time
\* (none when no recording was active) times the price, and leaves the
\* session idle.
C6_AsStated ==
    g_turn.outcome = "nospeech" =>
        /\ g_turn.chats = 0
        /\ g_turn.execs = 0
        /\ h_pc = "receive"
        /\ audio_stream = 0
        /\ transcribe_task = 0
        /\ Len(frames) = 2
        /\ frames[1] = Status("ready", "No speech detected")
        /\ frames[2].type = "cost"
        /\ frames[2].request.input_tokens = 0
        /\ frames[2].request.output_tokens = 0
        /\ frames[2].request.code_executions = 0
        /\ frames[2].request.stt_cost
             = round_to((g_turn.elapsed * PRICE_STT_PER_MIN) \div 60000, 10)

Abs(x) == IF x < 0 THEN 0 - x ELSE x

\* C7 as stated: the session total of every cost frame equals the sum of the
\* request totals of all cost frames sent so far, up to the rounding of each
\* published amount (half a unit of the sixth decimal per amount).
C7_AsStated ==
    \A i \in CostFrames :
        Abs(frames[i].session.total - g_cost.req_sum) <= 5 * (g_cost.n + 1)

\* C18 as stated: in every cost frame the session total equals the sum of the
\* frame's session stt_cost, agent_cost_in, agent_cost_out and exec_cost, up to
\* the rounding of the five published amounts (half a unit of the sixth
\* decimal each).
C18_AsStated ==
    \A i \in CostFrames :
        LET s == frames[i].session
        IN  Abs(s.total - (s.stt_cost + s.agent_cost_in + s.agent_cost_out
                           + s.exec_cost)) <= 5 * 5

\* the AudioStream has been given its end sentinel
Ended(t) == tasks[t].saw_end \/ \E i \in 1..Len(streams[t]) : streams[t][i] = None

\* the AudioStream has had its sentinel: it is queued, or consumed, or the
\* stream was ended and dropped by an `end`
Sentinelled(t) == Ended(t) \/ tasks[t] = Released

\* C24 as stated: when the handler has left its loop through an internal fault
\* (a frame that is no JSON, an exception of an execution) while a recording
\* was active, the active AudioStream has been ended and the transcription
\* task is no longer running: it is cancelled, as on a disconnect
C24_AsStated ==
    g_exit = "fault" =>
        /\ audio_stream # 0 => Ended(audio_stream)
        /\ transcribe_task # 0 => tasks[transcribe_task].state # "running"

\* a step that receives a binary frame
BytesStep == g_bins' # g_bins

\* a step that appends a chunk to stream t
PushStep(t) ==
    /\ t <= Len(streams')
    /\ Len(streams'[t]) = Len(streams[t]) + 1
    /\ streams'[t][Len(streams'[t])] \in Chunks

\* C17: a chunk is appended to a stream only by a binary frame, only to the
\* active stream and only before that stream's sentinel, so no stream ever
\* holds a chunk behind its sentinel; a binary frame that finds no active
\* stream changes neither the handler's state nor any stream or task, and no
\* frame is sent for it.
C17_LiveForwarding ==
    /\ [](\A t \in 1..Len(streams) : \A i \in 1..Len(streams[t]) :
            streams[t][i] = None => \A j \in (i + 1)..Len(streams[t]) :
                                       streams[t][j] \notin Chunks)
    /\ [][\A t \in 1..Len(streams) :
            PushStep(t) => /\ BytesStep
                           /\ t = audio_stream
                           /\ ~Sentinelled(t)]_vars
    /\ [][(BytesStep /\ audio_stream = 0) =>
            /\ UNCHANGED <<handlerVars, streams, tasks, g_cost, g_chats, g_inflight>>
            /\ frames' = <<>>]_vars

C17_Witness ==
    /\ g_turn.cmd = "bytes"
    /\ audio_stream # 0
    /\ ~Sentinelled(audio_stream)
    /\ streams[audio_stream] = <<"pcm1">>

\* C8 as stated: when the handler has returned after a disconnect during a
\* recording, the active stream has its sentinel and no transcription task of
\* the session is still running.
C8_AsStated ==
    (g_exit = "disconnect" /\ audio_stream # 0) =>
        /\ Ended(audio_stream)
        /\ \A t \in 1..Len(tasks) : tasks[t].state # "running"

\* C9 as stated: after an exception of the assistant call or of a sandbox
\* execution during a turn, an error status has been sent and the handler is
\* back at its receive with the connection open.
C9_AsStated ==
    g_turn.raised # "none" =>
        /\ \E i \in 1..Len(frames) : frames[i].type = "status" /\ frames[i].status = "error"
        /\ h_pc = "receive"
        /\ g_exit = "open"

\* C10 as stated: an `end` whose recording span had a transcription error
\* issues no assistant call: the session goes back to idle, not to generating.
C10_AsStated ==
    g_turn.span_error =>
        /\ g_turn.chats = 0
        /\ h_pc \notin {"chat", "exec"}

(***************************************************************************)
(* Specifications                                                          *)
(***************************************************************************)
\* the state after construction: an empty AudioStream (transcriber.py 26-27),
\* execute_python not yet called, and the handler's locals of server.py 61-80
Init ==
    \* AudioStream.__init__
    /\ queue = <<>>
    /\ beforeEnd = <<>>
    /\ ends = 0
    /\ pushes = 0
    /\ got = <<>>
    \* execute_python
    /\ e_pc = "idle"
    /\ e_run = NoRun
    /\ e_installed = <<>>
    /\ e_result = NoResult
    /\ e_tmp = {}
    /\ e_procs = {}
    /\ e_runs = 0
    /\ e_installs = 0
    /\ e_child = <<>>
    /\ e_pip = "none"
    \* websocket_endpoint
    /\ h_pc = "receive"
    /\ audio_stream = 0
    /\ transcribe_task = 0
    /\ transcript_parts = <<>>
    /\ recording_start = 0
    /\ totals = ZeroTotals
    /\ conversation_id = 0
    /\ h_turn = NoTurnLocals
    /\ now = TickMs
    /\ streams = <<>>
    /\ tasks = <<>>
    /\ frames = <<>>
    /\ g_cmds = 0
    /\ g_bins = 0
    /\ g_deltas = [n |-> 0, foreign |-> 0]
    /\ g_chats = 0
    /\ g_inflight = 0
    /\ g_started = <<>>
    /\ g_turn = NoTurn
    /\ g_cost = [n |-> 0, req_sum |-> 0]
    /\ g_exit = "open"
    \* agent.py
    /\ a_client = 0
    /\ a_built = 0
    /\ a_sess = [s \in Sessions |-> NewSession]
    /\ a_convs = 0
    /\ a_calls = 0
    /\ a_log = [s \in Sessions |-> <<>>]
    \* transcriber.py
    /\ t_client = 0
    /\ t_built = 0
    /\ t_calls = 0
    /\ a_got = {}

SpecStream == Init /\ [][StreamNext]_vars

SpecExec == Init /\ [][ExecNext]_vars

Spec == Init /\ [][Next]_vars

SpecAgent == Init /\ [][AgentNext]_vars

\* execute_python under the scheduling its code relies on: a spawn is answered,
\* a waited-for child exits or the TIMEOUT_SECS timer of wait_for fires, and pip
\* exits or its 120 s timer fires. Nothing bounds the `await proc.communicate()`
\* that follows the kill (line 117), so RunReaped carries no fairness, and
\* neither does the caller's cancellation.
ExecFairness ==
    /\ WF_vars(RunSpawn \/ RunSpawnFails)
    /\ WF_vars(RunExit \/ RunTimeout)
    /\ WF_vars(PipSpawn \/ PipSpawnFails)
    /\ WF_vars(PipExit \/ PipTimeout)

SpecExecLive == Init /\ [][ExecNext]_vars /\ ExecFairness

====
